---- MODULE Spec2Model ----
(***************************************************************************)
(* TokenList (packages/ckeditor5-engine/src/view/tokenlist.ts): the        *)
(* ordered set of tokens of one space-separated attribute value.           *)
(*                                                                         *)
(* A string is a sequence of one-character strings, a token is a string,   *)
(* and a JavaScript Set<string> is the sequence of its elements in         *)
(* insertion order. Two TokenList objects t1 and t2 are driven by a caller *)
(* that makes one method call per step; t2 comes into being as a clone.    *)
(***************************************************************************)
EXTENDS Naturals, Sequences, FiniteSets

\* The longest string passed to a method, and the longest serialization a
\* list may grow to.
MaxLen == 5

\* The longest array passed to set() and remove().
MaxArgs == 2

Letters == {"a"}

\* The characters the regular expression class \s matches.
Whitespace == {" "}

Chars == Letters \cup Whitespace

Strings == UNION {[1..n -> Chars] : n \in 0..MaxLen}

\* The tokens passed to set() and remove(): the empty string and every
\* one-character string, a whitespace character included.
TokenArgs == {s \in Strings : Len(s) <= 1}

TokenArrays == UNION {[1..n -> TokenArgs] : n \in 0..MaxArgs}

\* ArrayOrItem<string>: one string, or an array of strings.
ArrayOrItem ==
    {[kind |-> "item", val |-> t] : t \in TokenArgs}
        \cup {[kind |-> "array", val |-> a] : a \in TokenArrays}

toArray(tokens) == IF tokens.kind = "array" THEN tokens.val ELSE <<tokens.val>>

IsSpace(c) == c \in Whitespace

----------------------------------------------------------------------------
(* String.prototype.split( /\s+/ ): the fragments between the maximal runs *)
(* of whitespace, the empty fragments before a leading run and after a     *)
(* trailing run included; the empty string splits into one empty fragment. *)

RECURSIVE SkipSpace(_, _)
SkipSpace(s, i) ==
    IF i <= Len(s) /\ IsSpace(s[i]) THEN SkipSpace(s, i + 1) ELSE i

RECURSIVE SplitFrom(_, _, _, _)
SplitFrom(s, i, cur, acc) ==
    IF i > Len(s) THEN Append(acc, cur)
    ELSE IF IsSpace(s[i]) THEN SplitFrom(s, SkipSpace(s, i), <<>>, Append(acc, cur))
    ELSE SplitFrom(s, i + 1, Append(cur, s[i]), acc)

split(s) == SplitFrom(s, 1, <<>>, <<>>)

\* Array.prototype.join( ' ' ).
RECURSIVE join(_)
join(arr) ==
    IF arr = <<>> THEN <<>>
    ELSE IF Len(arr) = 1 THEN arr[1]
    ELSE arr[1] \o <<" ">> \o join(Tail(arr))

----------------------------------------------------------------------------
(* Set<string>, in insertion order.                                        *)

SetHas(s, t) == \E i \in 1..Len(s) : s[i] = t

SetAdd(s, t) == IF SetHas(s, t) THEN s ELSE Append(s, t)

SetDelete(s, t) == SelectSeq(s, LAMBDA x : x # t)

Range(s) == {s[i] : i \in 1..Len(s)}

----------------------------------------------------------------------------
(* The methods of TokenList, as functions of the contents of _set.         *)

isEmpty(s) == Len(s) = 0

size(s) == Len(s)

has(s, name) == SetHas(s, name)

keys(s) == s

clear(s) == <<>>

\* The loop of setTo() and of set(): a token is added if it is truthy.
RECURSIVE AddTruthy(_, _)
AddTruthy(s, tokens) ==
    IF tokens = <<>> THEN s
    ELSE LET token == Head(tokens)
         IN  AddTruthy(IF token # <<>> THEN SetAdd(s, token) ELSE s, Tail(tokens))

\* The same loop with the test of the token left out.
RECURSIVE AddEvery(_, _)
AddEvery(s, tokens) ==
    IF tokens = <<>> THEN s
    ELSE AddEvery(SetAdd(s, Head(tokens)), Tail(tokens))

\* setTo() without its call of clear().
setTo_keepsPrior(s, value) == AddTruthy(s, split(value))

setTo(s, value) == AddTruthy(clear(s), split(value))

\* set() without the test of the token.
set_addsEmpty(s, tokens) == AddEvery(s, toArray(tokens))

\* set() that deletes a token before it adds it, so that a token already in
\* the set moves to the end.
RECURSIVE MoveToEnd(_, _)
MoveToEnd(s, tokens) ==
    IF tokens = <<>> THEN s
    ELSE LET token == Head(tokens)
         IN  MoveToEnd(IF token # <<>> THEN Append(SetDelete(s, token), token) ELSE s,
                       Tail(tokens))

set_movesPresent(s, tokens) == MoveToEnd(s, toArray(tokens))

set(s, tokens) == AddTruthy(s, toArray(tokens))

RECURSIVE RemoveEach(_, _)
RemoveEach(s, tokens) ==
    IF tokens = <<>> THEN s
    ELSE RemoveEach(SetDelete(s, Head(tokens)), Tail(tokens))

\* remove() that deletes the first token of an array only.
remove_firstOnly(s, tokens) ==
    IF toArray(tokens) = <<>> THEN s ELSE SetDelete(s, Head(toArray(tokens)))

remove(s, tokens) == RemoveEach(s, toArray(tokens))

\* Array.prototype.join( '' ).
RECURSIVE concat(_)
concat(arr) == IF arr = <<>> THEN <<>> ELSE arr[1] \o concat(Tail(arr))

\* toString() that joins the tokens without a separator.
toString_noSeparator(s) == concat(s)

toString(s) == join(s)

\* The loop of isSimilar() and of _isMatching(): FALSE at the first token of ks
\* that other does not have.
RECURSIVE EveryIn(_, _)
EveryIn(ks, other) ==
    IF ks = <<>> THEN TRUE
    ELSE IF ~has(other, Head(ks)) THEN FALSE
    ELSE EveryIn(Tail(ks), other)

\* isSimilar() without the comparison of the sizes.
isSimilar_noSize(s, other) == EveryIn(keys(s), other)

isSimilar(s, other) ==
    IF size(s) # size(other) THEN FALSE ELSE EveryIn(keys(s), other)

\* new Set( this._set ): the elements, copied in order.
_clone(s) == s

----------------------------------------------------------------------------
(* Values returned to the caller.                                          *)

Undefined == [kind |-> "undefined", val |-> <<>>]

Void == [kind |-> "void", val |-> <<>>]

Boolean(b) == [kind |-> "boolean", val |-> b]

Number(n) == [kind |-> "number", val |-> n]

String(s) == [kind |-> "string", val |-> s]

Array(a) == [kind |-> "array", val |-> a]

\* A reference to a TokenList (setTo() returns this, _clone() the clone).
Ref(l) == [kind |-> "tokenlist", val |-> l]

----------------------------------------------------------------------------
(* _getTokensMatch( attributeKey, patternToken ).                          *)

\* The regular expressions passed as patternToken: /a/, /aa/ and /^a$/.
RegExps ==
    { [lit |-> <<"a">>, exact |-> FALSE],
      [lit |-> <<"a", "a">>, exact |-> FALSE],
      [lit |-> <<"a">>, exact |-> TRUE] }

\* token.match( patternToken ) is not null.
Matches(token, re) ==
    IF re.exact THEN token = re.lit
    ELSE \E i \in 1..Len(token) :
            /\ i + Len(re.lit) - 1 <= Len(token)
            /\ SubSeq(token, i, i + Len(re.lit) - 1) = re.lit

PatternTokens ==
    {[kind |-> "true", val |-> <<>>]}
        \cup {[kind |-> "string", val |-> s] : s \in Strings}
        \cup {[kind |-> "regexp", val |-> r] : r \in RegExps}

AttributeKeys == {"class"}

\* patternToken === true: a pair for every token.
RECURSIVE PushAll(_, _, _)
PushAll(ks, attributeKey, match) ==
    IF ks = <<>> THEN match
    ELSE PushAll(Tail(ks), attributeKey, Append(match, <<attributeKey, Head(ks)>>))

\* Every matching token pushed, and the list returned only if it is not empty.
MatchTrue_orUndefined(s, attributeKey) ==
    LET match == PushAll(keys(s), attributeKey, <<>>)
    IN  IF Len(match) # 0 THEN Array(match) ELSE Undefined

MatchTrue(s, attributeKey) == Array(PushAll(keys(s), attributeKey, <<>>))

\* A string patternToken with a fragment that is not in the set skipped.
RECURSIVE PushPresent(_, _, _, _)
PushPresent(s, frags, attributeKey, match) ==
    IF frags = <<>> THEN Array(match)
    ELSE IF SetHas(s, Head(frags))
         THEN PushPresent(s, Tail(frags), attributeKey,
                          Append(match, <<attributeKey, Head(frags)>>))
         ELSE PushPresent(s, Tail(frags), attributeKey, match)

MatchString_partial(s, attributeKey, patternToken) ==
    PushPresent(s, split(patternToken), attributeKey, <<>>)

\* A string patternToken: undefined at the first fragment that is not in the set.
RECURSIVE PushOrFail(_, _, _, _)
PushOrFail(s, frags, attributeKey, match) ==
    IF frags = <<>> THEN Array(match)
    ELSE IF SetHas(s, Head(frags))
         THEN PushOrFail(s, Tail(frags), attributeKey,
                         Append(match, <<attributeKey, Head(frags)>>))
         ELSE Undefined

\* An exception thrown to the caller.
Thrown == [kind |-> "error", val |-> <<>>]

\* A string patternToken that throws at a fragment that is not in the set.
RECURSIVE PushOrThrow(_, _, _, _)
PushOrThrow(s, frags, attributeKey, match) ==
    IF frags = <<>> THEN Array(match)
    ELSE IF SetHas(s, Head(frags))
         THEN PushOrThrow(s, Tail(frags), attributeKey,
                          Append(match, <<attributeKey, Head(frags)>>))
         ELSE Thrown

MatchString_throws(s, attributeKey, patternToken) ==
    PushOrThrow(s, split(patternToken), attributeKey, <<>>)

MatchString(s, attributeKey, patternToken) ==
    PushOrFail(s, split(patternToken), attributeKey, <<>>)

\* A regular expression: a pair for every token it matches.
RECURSIVE PushMatching(_, _, _, _)
PushMatching(ks, attributeKey, re, match) ==
    IF ks = <<>> THEN match
    ELSE PushMatching(Tail(ks), attributeKey, re,
                      IF Matches(Head(ks), re)
                      THEN Append(match, <<attributeKey, Head(ks)>>)
                      ELSE match)

\* The list returned even when it is empty.
MatchRegExp_emptyList(s, attributeKey, re) ==
    Array(PushMatching(keys(s), attributeKey, re, <<>>))

MatchRegExp(s, attributeKey, re) ==
    LET match == PushMatching(keys(s), attributeKey, re, <<>>)
    IN  IF Len(match) # 0 THEN Array(match) ELSE Undefined

_getTokensMatch(s, attributeKey, patternToken) ==
    IF patternToken.kind = "true" THEN MatchTrue(s, attributeKey)
    ELSE IF patternToken.kind = "string"
         THEN MatchString(s, attributeKey, patternToken.val)
         ELSE MatchRegExp(s, attributeKey, patternToken.val)

\* name ? [ name ] : this.keys(); name is a string or undefined.
_getConsumables(s, name) ==
    IF name.kind = "string" /\ name.val # <<>> THEN <<name.val>> ELSE keys(s)

_canMergeFrom == TRUE

\* The loop of _mergeFrom(): a token of other is added if this does not have it.
RECURSIVE AddMissing(_, _)
AddMissing(s, ks) ==
    IF ks = <<>> THEN s
    ELSE AddMissing(IF ~SetHas(s, Head(ks)) THEN SetAdd(s, Head(ks)) ELSE s, Tail(ks))

\* _mergeFrom() that starts from an empty set.
_mergeFrom_dropsOwn(s, other) == AddMissing(<<>>, keys(other))

_mergeFrom(s, other) == AddMissing(s, keys(other))

\* _isMatching() with the two lists exchanged.
_isMatching_reversed(s, other) == EveryIn(keys(s), other)

_isMatching(s, other) == EveryIn(keys(other), s)

----------------------------------------------------------------------------
(* LinkUI: the link toolbar and the link form in the contextual balloon.   *)
(* A state st of the plugin and of what it acts on is a record:            *)
(*   created    this.toolbarView and this.formView have been created       *)
(*   stack      the views in the balloon, the visible one last             *)
(*   marker     the model has the marker 'link-ui'                         *)
(*   listeners  the update callbacks listening to editor.ui 'update' and   *)
(*              to the balloon's 'change:visibleView', each with the       *)
(*              values its closure holds                                   *)
(*   focus      what has the focus                                         *)
(*   selection  the link element under the selection, the element next     *)
(*              above the selection focus, whether the link command has a  *)
(*              value                                                      *)
(*   log        what the handler running has done so far, with the state   *)
(*              after each step                                            *)

ToolbarView == "toolbarView"

FormView == "formView"

Editable == "editable"

LinkElements == {"a1", "a2"}

ParentElements == {"p1", "p2"}

\* A selection in a link element gives the link command a value.
Selections ==
    {s \in [link : LinkElements \cup {"null"}, parent : ParentElements,
            value : BOOLEAN] : s.link # "null" => s.value}

LogEntry(what, st) ==
    [what |-> what, stack |-> st.stack, marker |-> st.marker, focus |-> st.focus,
     listening |-> st.listeners # {}]

Logged(what, st) == [st EXCEPT !.log = Append(@, LogEntry(what, st))]

_getSelectedLinkElement(st) == st.selection.link

getSelectionParent(st) == st.selection.parent

\* ContextualBalloon#hasView.
_balloon_hasView(st, view) == \E i \in 1..Len(st.stack) : st.stack[i] = view

\* ContextualBalloon#visibleView: the balloon shows the view added last.
_balloon_visibleView(st) == IF st.stack = <<>> THEN "null" ELSE st.stack[Len(st.stack)]

_isFormInPanel(st) == st.created /\ _balloon_hasView(st, FormView)

_isToolbarInPanel(st) == st.created /\ _balloon_hasView(st, ToolbarView)

_isToolbarVisible(st) == st.created /\ _balloon_visibleView(st) = ToolbarView

_isUIInPanel(st) == _isFormInPanel(st) \/ _isToolbarInPanel(st)

_isUIVisible(st) ==
    (st.created /\ _balloon_visibleView(st) = FormView) \/ _isToolbarVisible(st)

RECURSIVE FireUpdate(_)

\* ContextualBalloon#add: the view goes on top of the stack and becomes the
\* visible view, which fires 'change:visibleView'.
_balloon_add(st, view) ==
    FireUpdate(Logged("add:" \o view, [st EXCEPT !.stack = Append(@, view)]))

\* ContextualBalloon#remove: the view leaves the stack; 'change:visibleView'
\* fires when that changes the visible view.
_balloon_remove(st, view) ==
    LET st1 == Logged("remove:" \o view,
                      [st EXCEPT !.stack = SelectSeq(@, LAMBDA v : v # view)])
    IN  IF _balloon_visibleView(st1) # _balloon_visibleView(st) THEN FireUpdate(st1) ELSE st1

\* editor.editing.view.focus()
focusEditingView(st) == Logged("focus", [st EXCEPT !.focus = Editable])

_createViews(st) == [st EXCEPT !.created = TRUE]

_showFakeVisualSelection(st) == [st EXCEPT !.marker = TRUE]

_hideFakeVisualSelection(st) ==
    IF st.marker THEN [st EXCEPT !.marker = FALSE] ELSE st

\* _removeFormView() that leaves the marker in the model.
_removeFormView_keepsMarker(st) ==
    IF _isFormInPanel(st)
    THEN focusEditingView(_balloon_remove(st, FormView))
    ELSE st

_removeFormView(st) ==
    IF _isFormInPanel(st)
    THEN _hideFakeVisualSelection(focusEditingView(_balloon_remove(st, FormView)))
    ELSE st

\* _hideUI() that leaves the toolbar view in the balloon.
_hideUI_keepsToolbar(st) ==
    LET st1 == focusEditingView(Logged("_hideUI", st))
    IN  IF ~_isUIInPanel(st1) THEN Logged("return", st1)
        ELSE Logged("return",
                 _hideFakeVisualSelection(
                     _removeFormView([st1 EXCEPT !.listeners = {}])))

\* _hideUI() that does not stop listening.
_hideUI_keepsListening(st) ==
    LET st1 == focusEditingView(Logged("_hideUI", st))
    IN  IF ~_isUIInPanel(st1) THEN Logged("return", st1)
        ELSE LET st3 == _removeFormView(st1)
                 st4 == IF _isToolbarInPanel(st3) THEN _balloon_remove(st3, ToolbarView)
                        ELSE st3
             IN  Logged("return", _hideFakeVisualSelection(st4))

_hideUI(st) ==
    LET st1 == focusEditingView(Logged("_hideUI", st))
    IN  IF ~_isUIInPanel(st1) THEN Logged("return", st1)
        ELSE LET st2 == [st1 EXCEPT !.listeners = {}]
                 st3 == _removeFormView(st2)
                 st4 == IF _isToolbarInPanel(st3) THEN _balloon_remove(st3, ToolbarView)
                        ELSE st3
             IN  Logged("return", _hideFakeVisualSelection(st4))

\* The values that the closure of an update callback made now starts with.
Closure(st) ==
    [prevSelectedLink |-> _getSelectedLinkElement(st),
     prevSelectionParent |-> getSelectionParent(st)]

\* update that leaves prevSelectedLink and prevSelectionParent as they were.
update_keepsPrev(st, c) ==
    IF \/ (c.prevSelectedLink # "null" /\ _getSelectedLinkElement(st) = "null")
       \/ (c.prevSelectedLink = "null"
             /\ getSelectionParent(st) # c.prevSelectionParent)
    THEN _hideUI(st)
    ELSE IF _isUIVisible(st) THEN Logged("updatePosition", st)
    ELSE st

\* One run of the update callback whose closure holds c. What it assigns to
\* its closure matters only while it is still listening.
update(st, c) ==
    LET selectedLink == _getSelectedLinkElement(st)
        selectionParent == getSelectionParent(st)
        st1 == IF \/ (c.prevSelectedLink # "null" /\ selectedLink = "null")
                  \/ (c.prevSelectedLink = "null"
                        /\ selectionParent # c.prevSelectionParent)
               THEN _hideUI(st)
               ELSE IF _isUIVisible(st) THEN Logged("updatePosition", st)
               ELSE st
    IN  [st1 EXCEPT !.listeners =
            IF c \in @ THEN (@ \ {c}) \cup {Closure(st1)} ELSE @]

RECURSIVE FireEach(_, _)

\* The callbacks that were listening when the event fired, one after another.
FireEach(st, callbacks) ==
    IF callbacks = {} THEN st
    ELSE LET c == CHOOSE x \in callbacks : TRUE
         IN  FireEach(update(st, c), callbacks \ {c})

\* editor.ui 'update' or the balloon's 'change:visibleView' fires.
FireUpdate(st) == FireEach(st, st.listeners)

_startUpdatingUI(st) == [st EXCEPT !.listeners = @ \cup {Closure(st)}]

_addActionsView(st) ==
    LET st1 == IF ~st.created THEN _createViews(st) ELSE st
    IN  IF _isToolbarInPanel(st1) THEN st1 ELSE _balloon_add(st1, ToolbarView)

\* The form is added; when it is the visible view its URL field is selected.
_addFormView(st) ==
    LET st1 == IF ~st.created THEN _createViews(st) ELSE st
    IN  IF _isFormInPanel(st1) THEN st1
        ELSE LET st2 == _balloon_add(st1, FormView)
             IN  IF _balloon_visibleView(st2) = FormView
                 THEN [st2 EXCEPT !.focus = FormView]
                 ELSE st2

\* _closeFormView() that hides the whole UI whatever the link command value.
_closeFormView_alwaysHides(st) ==
    _hideUI(Logged("restoreManualDecoratorStates", st))

_closeFormView(st) ==
    LET st1 == Logged("restoreManualDecoratorStates", st)
    IN  IF st1.selection.value THEN _removeFormView(st1) ELSE _hideUI(st1)

\* _showUI() that, with a link under the selection, adds the form at once.
_showUI_alwaysForm(st, forceVisible) ==
    LET st1 == IF ~st.created THEN _createViews(st) ELSE st
        st2 == IF _getSelectedLinkElement(st1) = "null"
               THEN _addFormView(_addActionsView(_showFakeVisualSelection(st1)))
               ELSE _addFormView(_addActionsView(st1))
    IN  _startUpdatingUI(st2)

\* _showUI() that, without a link under the selection, adds the form alone.
_showUI_formOnly(st, forceVisible) ==
    LET st1 == IF ~st.created THEN _createViews(st) ELSE st
        st2 == IF _getSelectedLinkElement(st1) = "null"
               THEN _addFormView(_showFakeVisualSelection(st1))
               ELSE IF _isToolbarVisible(st1) THEN _addFormView(st1)
               ELSE _addActionsView(st1)
    IN  _startUpdatingUI(st2)

\* The stack 'main' is the only one in the balloon, so showStack( 'main' )
\* leaves the balloon as it is, forceVisible or not.
_showUI(st, forceVisible) ==
    LET st1 == IF ~st.created THEN _createViews(st) ELSE st
        st2 == IF _getSelectedLinkElement(st1) = "null"
               THEN _addFormView(_addActionsView(_showFakeVisualSelection(st1)))
               ELSE IF _isToolbarVisible(st1) THEN _addFormView(st1)
               ELSE _addActionsView(st1)
    IN  _startUpdatingUI(st2)

\* The plugin after init(): no views yet, nothing in the balloon, the
\* selection in a paragraph.
InitialUI ==
    [created |-> FALSE, stack |-> <<>>, marker |-> FALSE, listeners |-> {},
     focus |-> Editable,
     selection |-> [link |-> "null", parent |-> "p1", value |-> FALSE],
     log |-> <<>>]

\* A command has changed the document: the selection is now sel, the change
\* is rendered and editor.ui fires 'update'.
Rendered(st, sel) == FireUpdate([st EXCEPT !.selection = sel])

----------------------------------------------------------------------------
(* The snippet adapter: filterAllowedSnippets. A snippet is an object with *)
(* a snippetName and a requiredFor, which is another snippet or nothing;   *)
(* the Set snippets is a sequence of distinct snippets in insertion order. *)

MaxPatterns == 2

Snippets == {"A", "B", "C"}

snippetName(snippetData) ==
    CASE snippetData = "A" -> <<"a">>
      [] snippetData = "B" -> <<"a", "b">>
      [] snippetData = "C" -> <<"b">>

\* What requiredFor can be for each snippet: another snippet or nothing.
RequiredFors ==
    {r \in [Snippets -> Snippets \cup {"null"}] : \A x \in Snippets : r[x] # x}

\* The Sets of snippets: every order of every choice of distinct snippets.
SnippetSets ==
    {q \in UNION {[1..n -> Snippets] : n \in 0..Cardinality(Snippets)} :
        \A i, j \in 1..Len(q) : q[i] = q[j] => i = j}

Patterns ==
    {<<"a">>, <<"b">>, <<"a", "b">>, <<"b", "a">>, <<"a", "*">>, <<"*", "b">>}

\* allowedSnippets: the caller passes an array that is not empty.
AllowedSnippets == UNION {[1..n -> Patterns] : n \in 1..MaxPatterns}

RECURSIVE GlobMatch(_, _)

\* A glob pattern of letters and '*', '*' standing for any letters.
GlobMatch(name, pattern) ==
    IF pattern = <<>> THEN name = <<>>
    ELSE IF Head(pattern) = "*"
         THEN \/ GlobMatch(name, Tail(pattern))
              \/ name # <<>> /\ GlobMatch(Tail(name), pattern)
         ELSE /\ name # <<>>
              /\ Head(name) = Head(pattern)
              /\ GlobMatch(Tail(name), Tail(pattern))

minimatch(name, pattern) == GlobMatch(name, pattern)

\* String.prototype.includes
includes(name, pattern) ==
    \E i \in 1..(Len(name) + 1) :
        /\ i + Len(pattern) - 1 <= Len(name)
        /\ SubSeq(name, i, i + Len(pattern) - 1) = pattern

shouldBeBuilt(snippetData, allowedSnippets) ==
    \E k \in 1..Len(allowedSnippets) :
        \/ minimatch(snippetName(snippetData), allowedSnippets[k])
        \/ includes(snippetName(snippetData), allowedSnippets[k])

RECURSIVE AddDependencies(_, _, _)

\* The second loop: one pass over the snippets in order, adding a snippet
\* whose requiredFor is in snippetsToBuild at that moment.
AddDependencies(snippetsToBuild, rest, requiredFor) ==
    IF rest = <<>> THEN snippetsToBuild
    ELSE LET snippetData == Head(rest)
         IN  IF SetHas(snippetsToBuild, snippetData)
             THEN AddDependencies(snippetsToBuild, Tail(rest), requiredFor)
             ELSE IF /\ requiredFor[snippetData] # "null"
                     /\ SetHas(snippetsToBuild, requiredFor[snippetData])
             THEN AddDependencies(SetAdd(snippetsToBuild, snippetData), Tail(rest),
                                  requiredFor)
             ELSE AddDependencies(snippetsToBuild, Tail(rest), requiredFor)

\* The Set snippets after filterAllowedSnippets( snippets, allowedSnippets ).
filterAllowedSnippets(snippets, requiredFor, allowedSnippets) ==
    LET matched == SelectSeq(snippets, LAMBDA x : shouldBeBuilt(x, allowedSnippets))
        snippetsToBuild == AddDependencies(matched, snippets, requiredFor)
    IN  SelectSeq(snippets, LAMBDA x : SetHas(snippetsToBuild, x))

----------------------------------------------------------------------------
(* The snippet adapter: getConstantDefinitions. A path is the sequence of  *)
(* its segments, the empty sequence being the root directory (or, for a    *)
(* pageSourcePath, no path at all). A constants file is a function from    *)
(* the constant names to their values, "undefined" for a name that the     *)
(* file does not define.                                                   *)

MaxPages == 2

Directories == {<<>>, <<"a">>}

\* upath.dirname: the parent directory; the root is its own parent.
dirname(path) == IF path = <<>> THEN <<>> ELSE SubSeq(path, 1, Len(path) - 1)

\* pageSourcePath of a snippet: none, a page in the root, a page in /a.
PageSourcePaths == {<<>>, <<"page">>, <<"a", "page">>}

\* The snippets passed, as the sequence of their pageSourcePath.
PageSnippets == UNION {[1..n -> PageSourcePaths] : n \in 0..MaxPages}

ConstantNames == <<"X", "Y">>

\* Values of constants: the number 0 and two strings that are not empty.
ConstantValues == {"0", "'x'", "'y'"}

\* A JavaScript value that counts as true in a condition.
Truthy(value) == value \notin {"undefined", "0"}

ConstantsFiles == [Range(ConstantNames) -> ConstantValues \cup {"undefined"}]

NoDefinitions == [n \in Range(ConstantNames) |-> "undefined"]

\* What globSync finds in the docs directory of each directory: at most one
\* constants file.
FileSystems == [Directories -> [found : BOOLEAN, file : ConstantsFiles]]

RECURSIVE MergeConstants(_, _, _)

\* for ( const constantName in packageConstantDefinitions ): acc is the
\* constantDefinitions so far, or has thrown.
MergeConstants(acc, file, names) ==
    IF names = <<>> \/ acc.threw THEN acc
    ELSE LET constantName == Head(names)
             constantValue == file[constantName]
             known == acc.constantDefinitions[constantName]
         IN  IF constantValue = "undefined"
             THEN MergeConstants(acc, file, Tail(names))
             ELSE IF Truthy(known) /\ known # constantValue
             THEN [acc EXCEPT !.threw = TRUE, !.name = constantName]
             ELSE MergeConstants(
                      [acc EXCEPT !.constantDefinitions[constantName] = constantValue],
                      file, Tail(names))

RECURSIVE WalkUp(_, _, _)

\* while ( !knownPaths.has( directory ) ): the directory, then its parents.
WalkUp(acc, directory, fs) ==
    IF acc.threw \/ directory \in acc.knownPaths THEN acc
    ELSE LET acc1 == [acc EXCEPT !.knownPaths = @ \cup {directory}]
             acc2 == IF fs[directory].found
                     THEN MergeConstants(acc1, fs[directory].file, ConstantNames)
                     ELSE acc1
         IN  WalkUp(acc2, dirname(directory), fs)

RECURSIVE ForEachSnippet(_, _, _)

ForEachSnippet(acc, snippets, fs) ==
    IF snippets = <<>> \/ acc.threw THEN acc
    ELSE IF Head(snippets) = <<>> THEN ForEachSnippet(acc, Tail(snippets), fs)
    ELSE ForEachSnippet(WalkUp(acc, dirname(Head(snippets)), fs), Tail(snippets), fs)

\* What getConstantDefinitions( snippets ) returns or throws with the files
\* of fs on the disk.
getConstantDefinitions(snippets, fs) ==
    ForEachSnippet([threw |-> FALSE, name |-> "", knownPaths |-> {},
                    constantDefinitions |-> NoDefinitions],
                   snippets, fs)

----------------------------------------------------------------------------
(* The objects and the calls made on them.                                 *)

VARIABLES
    _set,   \* _set[l]: the Set object the field _set of TokenList l refers to
    heap,   \* heap[r]: the elements of Set object r, in insertion order
    pre,    \* the tokens of every list when the last call began
    call,   \* the last call: the method, the list it was made on, the argument
    ret,    \* what the last call returned
    kept,   \* the object the caller has kept from a keys() call, and of what
    array,  \* the elements of the Array object that keys() made for the caller
    ui,     \* the LinkUI plugin, the balloon and the selection
    uiPre,  \* ui when the last LinkUI event handler began
    event,  \* the last LinkUI event
    snippets,     \* the Set snippets that filterAllowedSnippets was given
    filterArgs,   \* snippets before the call, requiredFor, allowedSnippets
    constants,    \* what getConstantDefinitions returned or threw
    constantsArgs \* the snippets it was given and the files on the disk

vars ==
    <<_set, heap, pre, call, ret, kept, array, ui, uiPre, event,
      snippets, filterArgs, constants, constantsArgs>>

adapterVars == <<snippets, filterArgs, constants, constantsArgs>>

tokenVars == <<_set, heap, pre, call, ret, kept, array>>

uiVars == <<ui, uiPre, event>>

\* What the caller holds besides the lists.
callerVars == <<kept, array>>

Lists == {"t1", "t2"}

SetObjects == {"s1", "s2"}

Null == "null"

Exists(l) == _set[l] # Null

TokensOf(l) == IF Exists(l) THEN heap[_set[l]] ELSE <<>>

Snapshot == [l \in Lists |-> TokensOf(l)]

NoArg == [kind |-> "none", val |-> <<>>]

\* The caller keeps every list short enough to be written in MaxLen characters.
Fits(s) == Len(toString(s)) <= MaxLen

NoCall == [op |-> "none", target |-> "none", arg |-> NoArg]

\* The one Array object that the caller keeps.
ArrayObject == "k1"

NothingKept == [ref |-> Null, of |-> "none", at |-> <<>>]

\* The elements of the object that ref refers to, as they are now.
ItemsOf(ref) == IF ref = ArrayObject THEN array ELSE heap[ref]

\* The caller makes a call when the one before has returned.
Idle == call = NoCall

Called(op, l, arg, result) ==
    /\ pre' = Snapshot
    /\ call' = [op |-> op, target |-> l, arg |-> arg]
    /\ ret' = result
    /\ UNCHANGED callerVars
    /\ UNCHANGED uiVars
    /\ UNCHANGED adapterVars

\* A call that changes the contents of the _set of l to s.
Mutate(l, s) ==
    /\ Fits(s)
    /\ heap' = [heap EXCEPT ![_set[l]] = s]
    /\ UNCHANGED _set

\* A call that changes nothing.
Query(op, l, arg, result) ==
    /\ Called(op, l, arg, result)
    /\ UNCHANGED <<_set, heap>>

\* Before snippetAdapter has called filterAllowedSnippets.
NoFilterArgs ==
    [snippets |-> <<>>, requiredFor |-> [x \in Snippets |-> "null"],
     allowedSnippets |-> <<>>]

\* A disk without constants files.
NoFiles == [d \in Directories |-> [found |-> FALSE, file |-> NoDefinitions]]

\* new TokenList(): t1 is constructed empty; t2 is made by _clone().
Init ==
    /\ _set = [l \in Lists |-> IF l = "t1" THEN "s1" ELSE Null]
    /\ heap = [r \in SetObjects |-> <<>>]
    /\ pre = [l \in Lists |-> <<>>]
    /\ call = NoCall
    /\ ret = Void
    /\ kept = NothingKept
    /\ array = <<>>
    /\ ui = InitialUI
    /\ uiPre = InitialUI
    /\ event = "none"
    /\ snippets = <<>>
    /\ filterArgs = NoFilterArgs
    /\ constants = getConstantDefinitions(<<>>, NoFiles)
    /\ constantsArgs = [snippets |-> <<>>, fs |-> NoFiles]

Do_setTo(l, value) ==
    /\ Idle /\ Exists(l)
    /\ Mutate(l, setTo(TokensOf(l), value))
    /\ Called("setTo", l, String(value), Ref(l))

Do_set(l, tokens) ==
    /\ Idle /\ Exists(l)
    /\ Mutate(l, set(TokensOf(l), tokens))
    /\ Called("set", l, tokens, Void)

Do_remove(l, tokens) ==
    /\ Idle /\ Exists(l)
    /\ Mutate(l, remove(TokensOf(l), tokens))
    /\ Called("remove", l, tokens, Void)

Do_clear(l) ==
    /\ Idle /\ Exists(l)
    /\ Mutate(l, clear(TokensOf(l)))
    /\ Called("clear", l, NoArg, Void)

\* _mergeFrom() that moves the tokens: what it takes from other it deletes there.
Do_mergeFrom_moves(l, other) ==
    /\ Idle /\ Exists(l) /\ Exists(other)
    /\ Fits(_mergeFrom(TokensOf(l), TokensOf(other)))
    /\ heap' = [r \in SetObjects |->
                  IF r = _set[l] THEN _mergeFrom(TokensOf(l), TokensOf(other))
                  ELSE IF r = _set[other] THEN <<>>
                  ELSE heap[r]]
    /\ UNCHANGED _set
    /\ Called("_mergeFrom", l, Ref(other), Void)

Do_mergeFrom(l, other) ==
    /\ Idle /\ Exists(l) /\ Exists(other)
    /\ Mutate(l, _mergeFrom(TokensOf(l), TokensOf(other)))
    /\ Called("_mergeFrom", l, Ref(other), Void)

\* The Set object of a clone that shares the Set of the list it is cloned from.
CloneSet_shared(l, m) == _set[l]

\* The Set object of the clone m of l: new Set( ... ) is an object that no
\* other list refers to.
CloneSet(l, m) == CHOOSE r \in SetObjects : \A k \in Lists \ {m} : _set[k] # r

\* m = l._clone(): the variable m now holds the new TokenList.
Do_clone(l, m) ==
    /\ Idle /\ Exists(l) /\ m # l
    /\ LET r == CloneSet(l, m)
       IN  /\ _set' = [_set EXCEPT ![m] = r]
           /\ heap' = [heap EXCEPT ![r] = _clone(TokensOf(l))]
    /\ Called("_clone", l, NoArg, Ref(m))

Do_isEmpty(l) ==
    Idle /\ Exists(l) /\ Query("isEmpty", l, NoArg, Boolean(isEmpty(TokensOf(l))))

Do_size(l) ==
    Idle /\ Exists(l) /\ Query("size", l, NoArg, Number(size(TokensOf(l))))

Do_has(l, name) ==
    Idle /\ Exists(l) /\ Query("has", l, String(name), Boolean(has(TokensOf(l), name)))

Do_keys(l) ==
    Idle /\ Exists(l) /\ Query("keys", l, NoArg, Array(keys(TokensOf(l))))

Do_toString(l) ==
    Idle /\ Exists(l) /\ Query("toString", l, NoArg, String(toString(TokensOf(l))))

Do_isSimilar(l, other) ==
    /\ Idle /\ Exists(l) /\ Exists(other)
    /\ Query("isSimilar", l, Ref(other),
             Boolean(isSimilar(TokensOf(l), TokensOf(other))))

Do_getTokensMatch(l, attributeKey, patternToken) ==
    /\ Idle /\ Exists(l)
    /\ Query("_getTokensMatch", l, [key |-> attributeKey, pattern |-> patternToken],
             _getTokensMatch(TokensOf(l), attributeKey, patternToken))

Do_getConsumables(l, name) ==
    Idle /\ Exists(l) /\ Query("_getConsumables", l, name,
                       Array(_getConsumables(TokensOf(l), name)))

Do_canMergeFrom(l) ==
    Idle /\ Exists(l) /\ Query("_canMergeFrom", l, NoArg, Boolean(_canMergeFrom))

Do_isMatching(l, other) ==
    /\ Idle /\ Exists(l) /\ Exists(other)
    /\ Query("_isMatching", l, Ref(other),
             Boolean(_isMatching(TokensOf(l), TokensOf(other))))

\* The call has returned and the caller has read the result.
Return ==
    /\ call # NoCall
    /\ call' = NoCall
    /\ ret' = Void
    /\ pre' = Snapshot
    /\ UNCHANGED <<_set, heap>>
    /\ UNCHANGED callerVars
    /\ UNCHANGED uiVars
    /\ UNCHANGED adapterVars

\* keys() that hands out the live Set of the list in place of a new Array.
KeysObject_live(l) == _set[l]

\* The object that keys() returns: Array.from( ... ) makes a new Array.
KeysObject(l) == ArrayObject

\* keys() has returned and the caller keeps what it returned.
KeepKeys ==
    /\ call.op = "keys"
    /\ kept' = [ref |-> KeysObject(call.target), of |-> call.target, at |-> ret.val]
    /\ array' = ret.val
    /\ call' = NoCall
    /\ ret' = Void
    /\ pre' = Snapshot
    /\ UNCHANGED <<_set, heap>>
    /\ UNCHANGED uiVars
    /\ UNCHANGED adapterVars

Next ==
    \/ Return
    \/ \E l \in Lists :
         \/ \E value \in Strings : Do_setTo(l, value)
         \/ \E tokens \in ArrayOrItem : Do_set(l, tokens)
         \/ \E tokens \in ArrayOrItem : Do_remove(l, tokens)
         \/ Do_clear(l)
         \/ \E other \in Lists : Do_mergeFrom(l, other)
         \/ \E m \in Lists : Do_clone(l, m)
         \/ Do_isEmpty(l)
         \/ Do_size(l)
         \/ \E name \in TokenArgs : Do_has(l, name)
         \/ Do_keys(l)
         \/ Do_toString(l)
         \/ \E other \in Lists : Do_isSimilar(l, other)
         \/ \E k \in AttributeKeys, p \in PatternTokens : Do_getTokensMatch(l, k, p)
         \/ \E name \in {NoArg} \cup {String(t) : t \in TokenArgs} :
               Do_getConsumables(l, name)
         \/ Do_canMergeFrom(l)
         \/ \E other \in Lists : Do_isMatching(l, other)

Spec == Init /\ [][Next]_vars

\* A caller that keeps the array of a keys() call while it goes on changing
\* the list.
NextKeys ==
    \/ Return
    \/ KeepKeys
    \/ \E l \in Lists :
         \/ \E value \in Strings : Do_setTo(l, value)
         \/ \E tokens \in ArrayOrItem : Do_set(l, tokens)
         \/ \E tokens \in ArrayOrItem : Do_remove(l, tokens)
         \/ Do_clear(l)
         \/ Do_keys(l)

SpecKeys == Init /\ [][NextKeys]_vars

----------------------------------------------------------------------------
(* The events that LinkUI handles. A button or a form can be used while it *)
(* is the visible view of the balloon; a keystroke goes to what has the    *)
(* focus.                                                                  *)

\* The state in which an event handler starts.
Begin == [ui EXCEPT !.log = <<>>]

Handled(name, st) ==
    /\ ui' = st
    /\ uiPre' = Begin
    /\ event' = name
    /\ UNCHANGED tokenVars
    /\ UNCHANGED adapterVars

\* 'click' on the view document.
DocumentClick ==
    /\ Handled("click",
               IF _getSelectedLinkElement(Begin) # "null" THEN _showUI(Begin, FALSE)
               ELSE Begin)

\* Ctrl+K in the editable, with the link command enabled.
EditorCtrlK ==
    /\ ui.focus = Editable
    /\ Handled("Ctrl+K", _showUI(Begin, TRUE))

\* 'execute' of the link button of the editor toolbar or menu bar.
LinkButtonExecute ==
    /\ Handled("link", _showUI(Begin, TRUE))

\* Tab in the editable.
EditorTab ==
    /\ ui.focus = Editable
    /\ Handled("Tab",
               IF _isToolbarVisible(Begin) /\ Begin.focus # ToolbarView
               THEN [Begin EXCEPT !.focus = ToolbarView]
               ELSE Begin)

\* Esc in the editable.
EditorEsc ==
    /\ ui.focus = Editable
    /\ Handled("Esc", IF _isUIVisible(Begin) THEN _hideUI(Begin) ELSE Begin)

\* A click outside the balloon, once the views exist.
ClickOutside ==
    /\ ui.created
    /\ Handled("clickOutside", IF _isUIInPanel(Begin) THEN _hideUI(Begin) ELSE Begin)

\* Esc in the link toolbar.
ToolbarEsc ==
    /\ ui.created /\ ui.focus = ToolbarView
    /\ Handled("toolbar:Esc", _hideUI(Begin))

\* Ctrl+K in the link toolbar.
ToolbarCtrlK ==
    /\ ui.created /\ ui.focus = ToolbarView
    /\ Handled("toolbar:Ctrl+K", _addFormView(Begin))

\* 'execute' of the edit link button of the link toolbar.
EditLinkExecute ==
    /\ _isToolbarVisible(ui)
    /\ Handled("editLink", _addFormView(Begin))

\* 'execute' of the unlink button of the link toolbar: the unlink command
\* leaves no link under the selection.
UnlinkExecute ==
    /\ _isToolbarVisible(ui)
    /\ \E sel \in Selections :
          /\ sel.link = "null" /\ ~sel.value
          /\ Handled("unlink", _hideUI(Rendered(Begin, sel)))

\* 'submit' of the form, with the URL field valid or not.
FormSubmit ==
    /\ ui.created /\ _balloon_visibleView(ui) = FormView
    /\ \E valid \in BOOLEAN, sel \in Selections :
          Handled("submit",
                  IF valid THEN _closeFormView(Rendered(Begin, sel)) ELSE Begin)

\* 'cancel' of the form.
FormCancel ==
    /\ ui.created /\ _balloon_visibleView(ui) = FormView
    /\ Handled("cancel", _closeFormView(Begin))

\* Esc in the form.
FormEsc ==
    /\ ui.created /\ ui.focus = FormView
    /\ Handled("form:Esc", _closeFormView(Begin))

\* The selection has changed, or not, and editor.ui fires 'update'.
UiUpdate ==
    /\ \E sel \in Selections : Handled("update", Rendered(Begin, sel))

NextLinkUI ==
    \/ DocumentClick
    \/ EditorCtrlK
    \/ LinkButtonExecute
    \/ EditorTab
    \/ EditorEsc
    \/ ClickOutside
    \/ ToolbarEsc
    \/ ToolbarCtrlK
    \/ EditLinkExecute
    \/ UnlinkExecute
    \/ FormSubmit
    \/ FormCancel
    \/ FormEsc
    \/ UiUpdate

SpecLinkUI == Init /\ [][NextLinkUI]_vars

----------------------------------------------------------------------------
(* The calls that snippetAdapter makes.                                    *)

\* filterAllowedSnippets( snippets, allowedSnippets ) on a Set of snippets:
\* snippetAdapter calls it once.
Do_filterAllowedSnippets ==
    /\ filterArgs = NoFilterArgs
    /\ \E snippetSet \in SnippetSets, requiredFor \in RequiredFors,
          allowedSnippets \in AllowedSnippets :
          /\ snippets' = filterAllowedSnippets(snippetSet, requiredFor,
                                               allowedSnippets)
          /\ filterArgs' = [snippets |-> snippetSet, requiredFor |-> requiredFor,
                            allowedSnippets |-> allowedSnippets]
    /\ UNCHANGED <<constants, constantsArgs>>
    /\ UNCHANGED tokenVars
    /\ UNCHANGED uiVars

NextFilter == Do_filterAllowedSnippets

SpecFilter == Init /\ [][NextFilter]_vars

\* getConstantDefinitions( snippets ) with the files of fs on the disk:
\* snippetAdapter calls it once. A file that globSync does not find has no
\* content that matters.
Do_getConstantDefinitions ==
    /\ constantsArgs = [snippets |-> <<>>, fs |-> NoFiles]
    /\ \E pageSnippets \in PageSnippets, fs \in FileSystems :
          /\ \A d \in Directories : ~fs[d].found => fs[d].file = NoDefinitions
          /\ constants' = getConstantDefinitions(pageSnippets, fs)
          /\ constantsArgs' = [snippets |-> pageSnippets, fs |-> fs]
    /\ UNCHANGED <<snippets, filterArgs>>
    /\ UNCHANGED tokenVars
    /\ UNCHANGED uiVars

NextConstants == Do_getConstantDefinitions

SpecConstants == Init /\ [][NextConstants]_vars

----------------------------------------------------------------------------
(* What the claims speak of.                                               *)

Mutators == {"setTo", "set", "remove", "clear", "_mergeFrom"}

\* The list the last call was made on, and its tokens now.
This == call.target

Now(l) == TokensOf(l)

HasSpace(token) == \E k \in 1..Len(token) : IsSpace(token[k])

\* The elements of seq at the indices in idx, in the order of the indices.
AtIndices(seq, idx) ==
    [n \in 1..Cardinality(idx) |->
        seq[CHOOSE i \in idx : Cardinality({j \in idx : j < i}) = n - 1]]

\* The maximal runs of characters of s that are not whitespace, in order.
RunStarts(s) ==
    {i \in 1..Len(s) : ~IsSpace(s[i]) /\ (i = 1 \/ IsSpace(s[i - 1]))}

RunEnd(s, i) ==
    CHOOSE j \in i..Len(s) :
        /\ \A k \in i..j : ~IsSpace(s[k])
        /\ j = Len(s) \/ IsSpace(s[j + 1])

MaximalRuns(s) ==
    LET starts == AtIndices([i \in 1..Len(s) |-> i], RunStarts(s))
    IN  [n \in 1..Len(starts) |-> SubSeq(s, starts[n], RunEnd(s, starts[n]))]

\* seq without the later occurrences of an element.
FirstOccurrences(seq) ==
    AtIndices(seq, {i \in 1..Len(seq) : \A j \in 1..(i - 1) : seq[j] # seq[i]})

PairsOf(attributeKey, tokens) ==
    [i \in 1..Len(tokens) |-> <<attributeKey, tokens[i]>>]

\* C1: no token stored in a TokenList contains a whitespace character, in
\* any state reached by setTo, set, remove, clear, _mergeFrom and _clone
\* calls with arbitrary string arguments.
C1_NoWhitespaceInTokens ==
    \A l \in Lists : \A i \in 1..Len(Now(l)) : ~HasSpace(Now(l)[i])

\* C2: in every reachable state keys() holds no token twice and never the
\* empty string, and after setTo the size is the number of distinct tokens
\* of the value.
C2_NoDuplicateNoEmpty ==
    /\ \A l \in Lists :
          LET ks == keys(Now(l))
          IN  /\ \A i, j \in 1..Len(ks) : ks[i] = ks[j] => i = j
              /\ \A i \in 1..Len(ks) : ks[i] # <<>>
    /\ call.op = "setTo" =>
          size(Now(This)) = Cardinality(Range(MaximalRuns(call.arg.val)))

\* setTo( 'a a' ) has stored the repeated token once.
C2_Witness ==
    /\ call.op = "setTo"
    /\ call.arg.val = <<"a", " ", "a">>
    /\ keys(Now(This)) = << <<"a">> >>
    /\ size(Now(This)) = 1

\* C3: after setTo( value ) the tokens are exactly the maximal runs of
\* non-whitespace characters of value, in order of first occurrence; a token
\* of the prior state survives only if it occurs in value; and a value
\* without any such run leaves the list empty.
C3_SetToReplaces ==
    call.op = "setTo" =>
        LET value == call.arg.val
            runs == MaximalRuns(value)
            post == Now(This)
        IN  /\ post = FirstOccurrences(runs)
            /\ \A tok \in Range(pre[This]) :
                  tok \in Range(post) => tok \in Range(runs)
            /\ (\A i \in 1..Len(value) : IsSpace(value[i])) => isEmpty(post)

\* setTo( 'a aa ' ) on a list that held aaa.
C3_Witness ==
    /\ call.op = "setTo"
    /\ call.arg.val = <<"a", " ", "a", "a", " ">>
    /\ pre[This] = << <<"a", "a", "a">> >>
    /\ Now(This) = << <<"a">>, <<"a", "a">> >>

\* C4: after _mergeFrom( other ) this holds its former tokens at their
\* former positions, followed by the tokens of other it did not have, in the
\* order of other; it holds nothing else; and other is unchanged.
C4_MergeFromUnion ==
    call.op = "_mergeFrom" =>
        LET other == call.arg.val
            before == pre[This]
            theirs == pre[other]
            post == Now(This)
        IN  /\ Range(post) = Range(before) \cup Range(theirs)
            /\ Len(post) >= Len(before)
            /\ SubSeq(post, 1, Len(before)) = before
            /\ SubSeq(post, Len(before) + 1, Len(post))
                  = SelectSeq(theirs, LAMBDA x : x \notin Range(before))
            /\ Now(other) = theirs

\* <a>._mergeFrom( <aa, a> ): a is in both lists, aa is new.
C4_Witness ==
    /\ call.op = "_mergeFrom"
    /\ call.arg.val # This
    /\ pre[This] = << <<"a">> >>
    /\ pre[call.arg.val] = << <<"a", "a">>, <<"a">> >>
    /\ Now(This) = << <<"a">>, <<"a", "a">> >>

\* C5: _getTokensMatch with a string pattern splits it at the runs of
\* whitespace; if every fragment is in the set it returns one
\* [ key, fragment ] pair per fragment, in the order of the pattern, and
\* otherwise undefined, never a partial list.
C5_StringPattern ==
    (call.op = "_getTokensMatch" /\ call.arg.pattern.kind = "string") =>
        LET subs == split(call.arg.pattern.val)
        IN  IF \A i \in 1..Len(subs) : has(Now(This), subs[i])
            THEN ret = Array(PairsOf(call.arg.key, subs))
            ELSE ret = Undefined

\* The pattern 'a aa' on a list that has a and not aa.
C5_Witness ==
    /\ call.op = "_getTokensMatch"
    /\ call.arg.pattern = String(<<"a", " ", "a", "a">>)
    /\ has(Now(This), <<"a">>)
    /\ ~has(Now(This), <<"a", "a">>)
    /\ ret = Undefined

\* C6: _getTokensMatch with a regular expression returns one [ key, token ]
\* pair for every stored token the expression matches, in insertion order,
\* and nothing else; when no token matches (also on the empty list) it
\* returns undefined, never an empty list.
C6_RegExpPattern ==
    (call.op = "_getTokensMatch" /\ call.arg.pattern.kind = "regexp") =>
        LET re == call.arg.pattern.val
            hits == SelectSeq(keys(Now(This)), LAMBDA x : Matches(x, re))
        IN  /\ hits # <<>> => ret = Array(PairsOf(call.arg.key, hits))
            /\ hits = <<>> => ret = Undefined
            /\ ret # Array(<<>>)

\* /aa/ on the list <a, aa>.
C6_Witness ==
    /\ call.op = "_getTokensMatch"
    /\ call.arg.pattern = [kind |-> "regexp",
                           val |-> [lit |-> <<"a", "a">>, exact |-> FALSE]]
    /\ Now(This) = << <<"a">>, <<"a", "a">> >>
    /\ ret = Array(<< <<call.arg.key, <<"a", "a">> >> >>)

\* C7: _getTokensMatch( key, true ) returns one [ key, token ] pair for
\* every stored token, in insertion order, and always a list: the empty list
\* on an empty TokenList, not undefined.
C7_TruePattern ==
    (call.op = "_getTokensMatch" /\ call.arg.pattern.kind = "true") =>
        /\ ret = Array(PairsOf(call.arg.key, keys(Now(This))))
        /\ ret.kind = "array"
        /\ isEmpty(Now(This)) => ret = Array(<<>>)

\* _getTokensMatch( key, true ) on an empty list.
C7_Witness ==
    /\ call.op = "_getTokensMatch"
    /\ call.arg.pattern.kind = "true"
    /\ isEmpty(Now(This))
    /\ ret = Array(<<>>)

\* C8: a.isSimilar( b ) is true iff a and b have the same size and every
\* token of a is in b, whatever the insertion orders; it is reflexive and
\* symmetric, and two lists of equal size with disjoint tokens are not
\* similar.
C8_IsSimilar ==
    call.op = "isSimilar" =>
        LET a == Now(This)
            b == Now(call.arg.val)
        IN  /\ ret = Boolean(size(a) = size(b) /\ Range(a) \subseteq Range(b))
            /\ ret = Boolean(Range(a) = Range(b))
            /\ isSimilar(b, a) = ret.val
            /\ isSimilar(a, a) /\ isSimilar(b, b)
            /\ (size(a) = size(b) /\ size(a) > 0 /\ Range(a) \cap Range(b) = {})
                  => ret = Boolean(FALSE)

\* <a, aa>.isSimilar( <aa, a> ).
C8_Witness ==
    /\ call.op = "isSimilar"
    /\ Now(This) = << <<"a">>, <<"a", "a">> >>
    /\ Now(call.arg.val) = << <<"a", "a">>, <<"a">> >>
    /\ ret = Boolean(TRUE)

\* C9: _isMatching( other ) is true iff every token of other is in this;
\* this may hold more tokens, and an empty other matches any list.
C9_IsMatching ==
    call.op = "_isMatching" =>
        LET mine == Now(This)
            theirs == Now(call.arg.val)
        IN  /\ ret = Boolean(Range(theirs) \subseteq Range(mine))
            /\ isEmpty(theirs) => ret = Boolean(TRUE)

\* <a, aa>._isMatching( <aa> ): this holds a token that other does not.
C9_Witness ==
    /\ call.op = "_isMatching"
    /\ Now(This) = << <<"a">>, <<"a", "a">> >>
    /\ Now(call.arg.val) = << <<"a", "a">> >>
    /\ ret = Boolean(TRUE)

\* C10: _clone() returns a new TokenList with the tokens of the original,
\* and the two are independent: a setTo, set, remove, clear or _mergeFrom on
\* either leaves the tokens of the other unchanged. (t2 exists only as a
\* clone of t1, and t1 is replaced only by a clone of t2.)
C10_CloneIndependent ==
    /\ call.op = "_clone" =>
          LET clone == ret.val
          IN  /\ ret.kind = "tokenlist" /\ clone # This /\ Exists(clone)
              /\ _set[clone] # _set[This]
              /\ isSimilar(Now(clone), Now(This))
              /\ keys(Now(clone)) = keys(pre[This])
              /\ Now(This) = pre[This]
    /\ call.op \in Mutators =>
          \A m \in Lists \ {This} : Now(m) = pre[m]

\* setTo( 'aaa' ) on the clone t2 of <a, aa>: t1 still holds a and aa.
C10_Witness ==
    /\ call.op = "setTo"
    /\ This = "t2"
    /\ pre["t1"] = << <<"a">>, <<"a", "a">> >>
    /\ pre["t2"] = pre["t1"]
    /\ Now("t2") = << <<"a", "a", "a">> >>
    /\ Now("t1") = pre["t1"]

\* C11: set( tokens ) appends each non-empty token it is given that the list
\* does not hold yet, once and in the order given; a token already present
\* and the empty string change nothing; and the same call made again leaves
\* contents and order as they are.
C11_SetIdempotent ==
    call.op = "set" =>
        LET arr == toArray(call.arg)
            before == pre[This]
            post == Now(This)
            fresh == FirstOccurrences(
                         SelectSeq(arr, LAMBDA x : x # <<>> /\ x \notin Range(before)))
        IN  /\ Len(post) = Len(before) + Len(fresh)
            /\ SubSeq(post, 1, Len(before)) = before
            /\ \A i \in 1..Len(fresh) : post[Len(before) + i] = fresh[i]
            /\ (\A i \in 1..Len(arr) : arr[i] = <<>> \/ arr[i] \in Range(before))
                  => post = before
            /\ set(post, call.arg) = post
            /\ ret = Void

\* set( 'a' ) on the list <a, aa>.
C11_Witness ==
    /\ call.op = "set"
    /\ call.arg = [kind |-> "item", val |-> <<"a">>]
    /\ pre[This] = << <<"a">>, <<"a", "a">> >>
    /\ Now(This) = pre[This]

\* C12: after remove( tokens ) the list has none of the named tokens, every
\* other token is still there in its former relative order, and naming an
\* absent token changes nothing.
C12_RemoveExact ==
    call.op = "remove" =>
        LET named == Range(toArray(call.arg))
            before == pre[This]
            post == Now(This)
        IN  /\ \A tok \in named : ~has(post, tok)
            /\ post = SelectSeq(before, LAMBDA x : x \notin named)
            /\ named \cap Range(before) = {} => post = before
            /\ ret = Void

\* remove( 'a' ) on the list <a, aa> leaves aa only.
C12_Witness ==
    /\ call.op = "remove"
    /\ call.arg = [kind |-> "item", val |-> <<"a">>]
    /\ pre[This] = << <<"a">>, <<"a", "a">> >>
    /\ Now(This) = << <<"a", "a">> >>

\* C13: toString() is the stored tokens in insertion order with exactly one
\* space between consecutive tokens: no leading space, no trailing space, no
\* two spaces in a row; the empty list gives the empty string.
C13_ToStringSingleSpaces ==
    call.op = "toString" =>
        LET ks == keys(Now(This))
            str == ret.val
        IN  /\ ret.kind = "string"
            /\ FirstOccurrences(MaximalRuns(str)) = ks
            /\ Len(str) > 0 => ~IsSpace(str[1]) /\ ~IsSpace(str[Len(str)])
            /\ \A i \in 1..(Len(str) - 1) : ~(IsSpace(str[i]) /\ IsSpace(str[i + 1]))
            /\ isEmpty(ks) => str = <<>>

\* C14: with u the serialization of the list that setTo( s ) builds, a fresh
\* list given setTo( u ) serializes to u again and is similar to the first.
C14_RoundTrip ==
    call.op = "setTo" =>
        LET u == toString(Now(This))
            again == setTo(<<>>, u)
        IN  /\ Len(u) <= Len(call.arg.val)
            /\ toString(again) = u
            /\ isSimilar(again, Now(This))
            /\ isSimilar(Now(This), again)

\* setTo( ' a aa' ) serializes to 'a aa'.
C14_Witness ==
    /\ call.op = "setTo"
    /\ call.arg.val = <<" ", "a", " ", "a", "a">>
    /\ toString(Now(This)) = <<"a", " ", "a", "a">>
    /\ setTo(<<>>, toString(Now(This))) = << <<"a">>, <<"a", "a">> >>

Queries ==
    {"isEmpty", "size", "has", "keys", "toString", "isSimilar", "_getTokensMatch",
     "_getConsumables", "_canMergeFrom", "_isMatching"}

\* C16: a query leaves the tokens of every list as they were, the receiver
\* and the argument included; setTo, set, remove, clear and _mergeFrom
\* change the tokens of the receiver only.
C16_FrameEffects ==
    /\ call.op \in Queries => \A l \in Lists : Now(l) = pre[l]
    /\ call.op \in Mutators => \A m \in Lists \ {This} : Now(m) = pre[m]

\* <a>._mergeFrom( <aa> ): the receiver has grown, the argument still holds aa.
C16_Witness ==
    /\ call.op = "_mergeFrom"
    /\ call.arg.val # This
    /\ pre[This] = << <<"a">> >>
    /\ Now(This) = << <<"a">>, <<"a", "a">> >>
    /\ Now(call.arg.val) = << <<"a", "a">> >>
    /\ pre[call.arg.val] = Now(call.arg.val)

\* What each method returns when it returns normally.
ReturnKinds(op) ==
    CASE op = "setTo" -> {"tokenlist"}
      [] op = "_clone" -> {"tokenlist"}
      [] op \in {"set", "remove", "clear", "_mergeFrom"} -> {"void"}
      [] op \in {"isEmpty", "has", "isSimilar", "_canMergeFrom", "_isMatching"}
            -> {"boolean"}
      [] op = "size" -> {"number"}
      [] op = "toString" -> {"string"}
      [] op \in {"keys", "_getConsumables"} -> {"array"}
      [] op = "_getTokensMatch" -> {"array", "undefined"}
      [] OTHER -> {}

\* C17: with string arguments every call returns normally: no call throws,
\* removing an absent token, adding a present or empty one, setTo( '' ) and
\* clear() on an empty list included, and a string pattern that is not
\* satisfied returns undefined.
C17_NoErrors ==
    call # NoCall =>
        /\ ret.kind # "error"
        /\ ret.kind \in ReturnKinds(call.op)
        /\ (/\ call.op = "_getTokensMatch"
            /\ call.arg.pattern.kind = "string"
            /\ \E f \in Range(split(call.arg.pattern.val)) : ~has(Now(This), f))
              => ret = Undefined

\* The pattern 'aa' on the list <a>.
C17_Witness ==
    /\ call.op = "_getTokensMatch"
    /\ call.arg.pattern = String(<<"a", "a">>)
    /\ Now(This) = << <<"a">> >>
    /\ ret.kind = "undefined"

\* C18: a string pattern is read the way setTo reads its value: a pattern
\* without any token gives the empty list, not undefined, and whitespace
\* before and after the tokens of a pattern does not change the result.
C18_PatternIgnoresEmptyFragments ==
    (call.op = "_getTokensMatch" /\ call.arg.pattern.kind = "string") =>
        LET runs == MaximalRuns(call.arg.pattern.val)
        IN  /\ Len(runs) = 0 => ret = Array(<<>>)
            /\ Len(runs) > 0 =>
                  ret = _getTokensMatch(Now(This), call.arg.key,
                                        String(join([i \in 1..Len(runs) |-> runs[i]])))

\* C15: the array that keys() returned stays what it was when keys() was
\* called, whatever setTo, set, remove and clear do to the list afterwards;
\* keys() gives the tokens in insertion order; set() leaves every token the
\* list already has where it is; and a token that is removed and then added
\* again is the last one.
C15_KeysSnapshot ==
    /\ kept.ref # Null => ItemsOf(kept.ref) = kept.at
    /\ call.op = "keys" => ret = Array(Now(This))
    /\ call.op = "set" =>
          /\ Len(Now(This)) >= Len(pre[This])
          /\ \A i \in 1..Len(pre[This]) : Now(This)[i] = pre[This][i]
    /\ \A l \in Lists : \A i \in 1..Len(Now(l)) :
          LET tok == [kind |-> "item", val |-> Now(l)[i]]
              others == SelectSeq(Now(l), LAMBDA x : x # Now(l)[i])
          IN  set(remove(Now(l), tok), tok) = Append(others, Now(l)[i])

\* The array kept from keys() on <a, aa>, after remove( 'a' ) and set( 'a' )
\* have made the list <aa, a>.
C15_Witness ==
    /\ kept.ref # Null
    /\ kept.at = << <<"a">>, <<"a", "a">> >>
    /\ ItemsOf(kept.ref) = kept.at
    /\ call.op = "set"
    /\ This = kept.of
    /\ Now(kept.of) = << <<"a", "a">>, <<"a">> >>

\* C19: whenever the link form view is in the balloon, the link toolbar
\* view is in the balloon too, beneath it.
C19_FormAboveToolbar ==
    _isFormInPanel(ui) =>
        /\ _isToolbarInPanel(ui)
        /\ ui.stack = <<ToolbarView, FormView>>

\* The form has been opened with the edit link button on top of the toolbar.
C19_Witness ==
    /\ event = "editLink"
    /\ uiPre.stack = <<ToolbarView>>
    /\ ui.stack = <<ToolbarView, FormView>>

\* The places in the log of the last handler where _hideUI() was called.
HideCalls == {i \in 1..Len(ui.log) : ui.log[i].what = "_hideUI"}

\* The place in the log where the _hideUI() called at place i returned.
ReturnOf(i) ==
    CHOOSE j \in (i + 1)..Len(ui.log) :
        /\ ui.log[j].what = "return"
        /\ \A k \in (i + 1)..(j - 1) : ui.log[k].what # "return"

\* What the _hideUI() called at place i did before it returned.
StepsOf(i) ==
    LET during == SubSeq(ui.log, i + 1, ReturnOf(i) - 1)
    IN  [k \in 1..Len(during) |-> during[k].what]

\* C20: a call of _hideUI() with the form view or the toolbar view in the
\* balloon returns with neither of them in the balloon and without the
\* marker 'link-ui', having removed the form view before the toolbar view;
\* a call with neither view in the balloon focuses the editing view and
\* does nothing else.
C20_HideUI ==
    \A i \in HideCalls :
        /\ \E j \in (i + 1)..Len(ui.log) : ui.log[j].what = "return"
        /\ LET before == ui.log[i]
               after == ui.log[ReturnOf(i)]
               removals == SelectSeq(StepsOf(i),
                              LAMBDA w : w \in {"remove:" \o FormView,
                                                "remove:" \o ToolbarView})
           IN  /\ after.focus = Editable
               /\ StepsOf(i)[1] = "focus"
               /\ Range(before.stack) \cap {FormView, ToolbarView} # {} =>
                     /\ Range(after.stack) \cap {FormView, ToolbarView} = {}
                     /\ ~after.marker
                     /\ removals =
                           [k \in 1..Len(before.stack) |->
                               "remove:" \o before.stack[Len(before.stack) + 1 - k]]
               /\ Range(before.stack) \cap {FormView, ToolbarView} = {} =>
                     /\ StepsOf(i) = <<"focus">>
                     /\ after.stack = before.stack
                     /\ after.marker = before.marker

\* 'submit' with the toolbar, the form and the marker there, after which no
\* link is selected and the selection has another parent: the update callback
\* calls _hideUI(), which removes the form and then the toolbar, and
\* _closeFormView() calls it again with nothing left in the balloon.
C20_Witness ==
    /\ event = "submit"
    /\ uiPre.stack = <<ToolbarView, FormView>>
    /\ uiPre.marker
    /\ Cardinality(HideCalls) = 2
    /\ \E i, j \in HideCalls :
          /\ i < j
          /\ ui.log[i].stack = <<ToolbarView, FormView>>
          /\ StepsOf(i) = <<"focus", "remove:" \o FormView, "focus",
                            "remove:" \o ToolbarView>>
          /\ ui.log[j].stack = <<>>
          /\ StepsOf(j) = <<"focus">>
    /\ ui.stack = <<>>
    /\ ~ui.marker

\* C21: the model has the marker 'link-ui' only while the link form view is
\* in the balloon; a handler that has taken the form view out of the balloon
\* has taken the marker out of the model.
C21_MarkerOnlyWithForm ==
    /\ ui.marker => _isFormInPanel(ui)
    /\ (_isFormInPanel(uiPre) /\ ~_isFormInPanel(ui)) => ~ui.marker

\* 'cancel' of the form opened without a link, the link command having a
\* value by now: the form and the marker go, the toolbar stays.
C21_Witness ==
    /\ event = "cancel"
    /\ uiPre.marker
    /\ uiPre.stack = <<ToolbarView, FormView>>
    /\ ui.stack = <<ToolbarView>>
    /\ ~ui.marker

\* The places in the log of the last handler where _closeFormView() began.
CloseCalls ==
    {i \in 1..Len(ui.log) : ui.log[i].what = "restoreManualDecoratorStates"}

\* What the handler did after place i of its log, repositioning left out.
StepsAfter(i) ==
    LET rest == SubSeq(ui.log, i + 1, Len(ui.log))
    IN  SelectSeq([k \in 1..Len(rest) |-> rest[k].what],
                  LAMBDA w : w # "updatePosition")

\* C22: _closeFormView() first restores the manual decorator states; then,
\* with a link command value, it takes the form view out of the balloon and
\* leaves the toolbar view in it, and without a value it hides the UI, so
\* that neither view is in the balloon. 'cancel' and Esc in the form call it.
C22_CloseFormView ==
    /\ event \in {"cancel", "form:Esc"} => CloseCalls = {1}
    /\ event = "submit" => Cardinality(CloseCalls) <= 1
    /\ CloseCalls # {} => event \in {"submit", "cancel", "form:Esc"}
    /\ \A i \in CloseCalls :
          LET before == ui.log[i].stack
          IN  /\ ui.selection.value =>
                    /\ ui.stack = SelectSeq(before, LAMBDA v : v # FormView)
                    /\ (FormView \in Range(before) =>
                          /\ ui.stack = <<ToolbarView>>
                          /\ StepsAfter(i) = <<"remove:" \o FormView, "focus">>)
                    /\ (FormView \notin Range(before) => StepsAfter(i) = <<>>)
              /\ ~ui.selection.value =>
                    /\ ui.stack = <<>>
                    /\ StepsAfter(i)[1] = "_hideUI"

\* Esc in the form that was opened on a link: the toolbar stays.
C22_Witness ==
    /\ event = "form:Esc"
    /\ ui.selection.value
    /\ uiPre.stack = <<ToolbarView, FormView>>
    /\ ui.log[1].what = "restoreManualDecoratorStates"
    /\ ui.stack = <<ToolbarView>>

\* The last handler has called _showUI(): the link button, Ctrl+K in the
\* editable, or a click with a link element under the selection.
ShowUICalled ==
    \/ event \in {"Ctrl+K", "link"}
    \/ event = "click" /\ _getSelectedLinkElement(uiPre) # "null"

C24_ListeningOnlyWhileShown ==
    /\ ~_isUIInPanel(ui) => ui.listeners = {}
    /\ \A i \in HideCalls :
          \A k \in (i + 1)..ReturnOf(i) :
              ui.log[k].what \in {"remove:" \o FormView, "remove:" \o ToolbarView,
                                  "return"}
                  => ~ui.log[k].listening

\* Esc in the editable with the toolbar shown and a callback listening.
C24_Witness ==
    /\ event = "Esc"
    /\ uiPre.stack = <<ToolbarView>>
    /\ uiPre.listeners # {}
    /\ HideCalls = {1}
    /\ ui.log[3].what = "remove:" \o ToolbarView
    /\ ~ui.log[3].listening
    /\ ui.stack = <<>>
    /\ ui.listeners = {}

\* The steps of the last handler.
Steps == [k \in 1..Len(ui.log) |-> ui.log[k].what]

\* The callback that holds c hides the UI when it runs on the selection sel.
MustHide(c, sel) ==
    \/ (c.prevSelectedLink # "null" /\ sel.link = "null")
    \/ (c.prevSelectedLink = "null" /\ sel.parent # c.prevSelectionParent)

\* C25: when editor.ui fires 'update' with the UI shown, a callback that held
\* a link and finds none, or held none and finds another selection parent,
\* hides the UI: both views leave the balloon. Otherwise the balloon position
\* is updated, no view is removed, and the callback now holds the link and
\* the parent of the selection as it is. The same happens when the balloon
\* fires 'change:visibleView' as the form is put above the toolbar.
C25_Update ==
    /\ (event = "update" /\ _isUIInPanel(uiPre)) =>
          \A c \in uiPre.listeners :
              /\ MustHide(c, ui.selection) =>
                    /\ ui.stack = <<>>
                    /\ Steps[1] = "_hideUI"
              /\ ~MustHide(c, ui.selection) =>
                    /\ ui.stack = uiPre.stack
                    /\ Steps = <<"updatePosition">>
                    /\ ui.listeners = {Closure(ui)}
    /\ (/\ event \in {"editLink", "toolbar:Ctrl+K"}
        /\ uiPre.listeners # {}
        /\ ~_isFormInPanel(uiPre)) =>
          /\ \A c \in uiPre.listeners : ~MustHide(c, ui.selection)
          /\ Steps = <<"add:" \o FormView, "updatePosition">>
          /\ ui.stack = Append(uiPre.stack, FormView)
          /\ ui.listeners = {Closure(ui)}

\* 'update' with the toolbar shown for a link and no link under the selection
\* any more.
C25_Witness ==
    /\ event = "update"
    /\ uiPre.stack = <<ToolbarView>>
    /\ \E c \in uiPre.listeners : c.prevSelectedLink # "null"
    /\ ui.selection.link = "null"
    /\ ui.stack = <<>>
    /\ Steps[1] = "_hideUI"

\* C26: after filterAllowedSnippets the Set holds, in their former order,
\* the snippets whose name matches an allowed pattern and the snippets whose
\* requiredFor is held, and no other snippet.
C26_FilterKeepsMatchedAndRequired ==
    filterArgs # NoFilterArgs =>
        LET before == filterArgs.snippets
            requiredFor == filterArgs.requiredFor
            held == Range(snippets)
        IN  /\ snippets = SelectSeq(before, LAMBDA x : x \in held)
            /\ \A x \in Range(before) :
                  x \in held <=>
                      \/ shouldBeBuilt(x, filterArgs.allowedSnippets)
                      \/ requiredFor[x] # "null" /\ requiredFor[x] \in held

\* The directories that getConstantDefinitions looks into for a page.
RECURSIVE Ancestors(_)
Ancestors(directory) ==
    IF directory = <<>> THEN {<<>>} ELSE {directory} \cup Ancestors(dirname(directory))

\* The constants files found for the snippets.
FoundFiles ==
    LET pages == {p \in Range(constantsArgs.snippets) : p # <<>>}
        visited == UNION {Ancestors(dirname(p)) : p \in pages}
    IN  {constantsArgs.fs[d].file : d \in {v \in visited : constantsArgs.fs[v].found}}

\* C27: getConstantDefinitions throws whenever two of the constants files
\* found define one name with two values; and when it returns, every name
\* has the value that all the files defining it give it.
C27_DuplicatedConstantThrows ==
    /\ (\E f, g \in FoundFiles : \E n \in Range(ConstantNames) :
            /\ f[n] # "undefined" /\ g[n] # "undefined" /\ f[n] # g[n])
          => constants.threw
    /\ ~constants.threw =>
          \A n \in Range(ConstantNames) :
              /\ \A f \in FoundFiles :
                    f[n] # "undefined" => constants.constantDefinitions[n] = f[n]
              /\ (\A f \in FoundFiles : f[n] = "undefined")
                    => constants.constantDefinitions[n] = "undefined"

====
